---- MODULE Spec2Model ----
(***************************************************************************)
(* hn-to-instapaper (src/main.py): fetch the top Hacker News story ids,    *)
(* fetch each story, keep the ones with an external URL, rank them by      *)
(* comment count and mail the top ones to Instapaper over SMTP.            *)
(*                                                                         *)
(* main() is one sequential program; pc is its position.  Every network    *)
(* call is a step whose outcome (success, or one of the failures the call  *)
(* can raise) is chosen nondeterministically.  Python dicts are functions  *)
(* whose DOMAIN is the set of keys present, so dict.get(key, default) and  *)
(* an absent key are modelled as the code evaluates them.                  *)
(***************************************************************************)
EXTENDS Integers, Sequences, FiniteSets

VARIABLES
    env,          \* ICLOUD_EMAIL, ICLOUD_APP_PASSWORD, INSTAPAPER_EMAIL (module globals)
    pc,           \* position of main()
    missing,      \* main: missing
    story_ids,    \* main: story_ids
    i,            \* main: index of the next element of story_ids (first for loop)
    stories,      \* main: stories
    top_stories,  \* main: top_stories
    k,            \* main: index of the next element of top_stories (second for loop)
    msg,          \* send_to_instapaper: msg
    server,       \* send_to_instapaper: the SMTP session of the with block
    exc,          \* the exception in flight inside send_to_instapaper, or NoExc
    open,         \* number of SMTP connections currently open
    trace,        \* history: every network request issued, and the ranking, in order
    seen,         \* history: the stories has_external_url was evaluated on, in order
    out           \* history: the lines printed, in order

vars == <<env, pc, missing, story_ids, i, stories, top_stories, k, msg, server,
          exc, open, trace, seen, out>>

(***************************************************************************)
(* Bounds.  The two settings of the script are 20 and 5 (src/main.py:30,   *)
(* 31); the claims are stated for any values, and the model runs them      *)
(* scaled down so that every case (a response longer than the fetch        *)
(* limit, more qualifying stories than are sent) happens.  MaxDesc is the   *)
(* largest comment count an item carries.                                  *)
(***************************************************************************)
STORIES_TO_FETCH == 3

STORIES_TO_SEND == 2

MaxDesc == 1

(***************************************************************************)
(* Values                                                                  *)
(***************************************************************************)
\* The value of os.environ.get for an unset variable.
Unset == "<unset>"

ConfigNames == <<"ICLOUD_EMAIL", "ICLOUD_APP_PASSWORD", "INSTAPAPER_EMAIL">>

\* An environment variable is unset, set to the empty string, or set to text.
EnvValues == {Unset, "", "value"}

\* What fetch_story returns when the request fails (Python None).
NoStory == [none |-> TRUE]

NoExc == "<none>"

NoMsg == [none |-> TRUE]

NoServer == [none |-> TRUE]

Min(a, b) == IF a <= b THEN a ELSE b

\* s[:n] for a list s and n >= 0
Take(s, n) == SubSeq(s, 1, Min(n, Len(s)))

\* d.get(key, default)
Get(d, key, default) == IF key \in DOMAIN d THEN d[key] ELSE default

\* d.get(key), whose default is None: the result "is not None"
GetIsNotNone(d, key) == key \in DOMAIN d

Range(s) == {s[j] : j \in DOMAIN s}

(***************************************************************************)
(* The HTTP boundary: what the two endpoints may answer.                   *)
(***************************************************************************)
\* The failures requests.get / raise_for_status raise (requests.RequestException).
HttpFailures == {"connection_error", "timeout", "http_status"}

\* The list n, n-1, ... of len ids: the ranking endpoint lists stories by rank, not
\* by id.
Descending(n, len) == [j \in 1..len |-> n + 1 - j]

\* Bodies of GET /v0/topstories.json: lists of distinct ids, from the empty list to
\* one longer than STORIES_TO_FETCH.
TopStoriesBodies ==
    {Descending(STORIES_TO_FETCH + 1, n) : n \in 0..(STORIES_TO_FETCH + 1)}

TopStoriesResponses ==
    [status : HttpFailures] \cup [status : {"ok"}, json : TopStoriesBodies]

\* Bodies of GET /v0/item/{id}.json: title, url and descendants are optional; url
\* may be the empty string.  A self-post (no url), a story with an empty url, a
\* story with neither title nor descendants, and stories with each comment count.
ItemBodies(id) ==
    {[id |-> id, title |-> "T", descendants |-> MaxDesc],
     [id |-> id, title |-> "T", url |-> "", descendants |-> MaxDesc],
     [id |-> id, url |-> "u"]}
        \cup {[id |-> id, title |-> "T", url |-> "u", descendants |-> d] : d \in 1..MaxDesc}

ItemResponses(id) ==
    [status : HttpFailures] \cup [status : {"ok"}, json : ItemBodies(id)]

(***************************************************************************)
(* The functions of src/main.py                                            *)
(***************************************************************************)
\* Mutant: the failure of the request is swallowed and an empty list returned.
fetch_top_stories_swallows(resp, n) ==
    [raised |-> FALSE, value |-> IF resp.status = "ok" THEN Take(resp.json, n) ELSE <<>>]

\* fetch_top_stories(n): the list, or the exception raised
fetch_top_stories(resp, n) ==
    IF resp.status = "ok"
        THEN [raised |-> FALSE, value |-> Take(resp.json, n)]
        ELSE [raised |-> TRUE, value |-> <<>>]

\* fetch_story(story_id): the dict, or None when the request fails
fetch_story(resp) ==
    IF resp.status = "ok" THEN resp.json ELSE NoStory

\* bool(story) for what fetch_story returns: None and {} are falsy
Truthy(story) == story # NoStory /\ DOMAIN story # {}

has_external_url(story) == GetIsNotNone(story, "url")

\* key=lambda s: s.get("descendants", 0)
SortKey(s) == Get(s, "descendants", 0)

\* Mutant: x goes before the elements whose key equals its own (ties reversed, as
\* by reversing an ascending sort).
InsertDescUnstable(s, x) ==
    LET before == {j \in 1..Len(s) : SortKey(s[j]) > SortKey(x)}
        p == IF before = {} THEN 0 ELSE CHOOSE j \in before : \A m \in before : m <= j
    IN  SubSeq(s, 1, p) \o <<x>> \o SubSeq(s, p + 1, Len(s))

\* sorted(..., reverse=True) is stable: x goes after every element whose key is
\* at least its own.
InsertDesc(s, x) ==
    LET before == {j \in 1..Len(s) : SortKey(s[j]) >= SortKey(x)}
        p == IF before = {} THEN 0 ELSE CHOOSE j \in before : \A m \in before : m <= j
    IN  SubSeq(s, 1, p) \o <<x>> \o SubSeq(s, p + 1, Len(s))

RECURSIVE SortedDescFrom(_, _)
SortedDescFrom(acc, rest) ==
    IF rest = <<>> THEN acc
    ELSE SortedDescFrom(InsertDesc(acc, Head(rest)), Tail(rest))

Sorted(s) == SortedDescFrom(<<>>, s)

\* Mutant: the sorted list is returned whole.
get_top_commented_stories_untruncated(ss, n) == Sorted(ss)

get_top_commented_stories(ss, n) == Take(Sorted(ss), n)

\* the validation of main: the names appended to missing, in order
FalsyConfig(v) == v = Unset \/ v = ""

\* Mutant: the check of ICLOUD_APP_PASSWORD is forgotten.
MissingNamesSkipsPassword(e) ==
    LET pick(name) == IF FalsyConfig(e[name]) THEN <<name>> ELSE <<>>
    IN  pick(ConfigNames[1]) \o pick(ConfigNames[3])

MissingNames(e) ==
    LET pick(name) == IF FalsyConfig(e[name]) THEN <<name>> ELSE <<>>
    IN  pick(ConfigNames[1]) \o pick(ConfigNames[2]) \o pick(ConfigNames[3])

(***************************************************************************)
(* main()                                                                  *)
(***************************************************************************)
Init ==
    /\ env \in [Range(ConfigNames) -> EnvValues]
    /\ pc = "start"
    /\ missing = <<>>
    /\ story_ids = <<>>
    /\ i = 1
    /\ stories = <<>>
    /\ top_stories = <<>>
    /\ k = 1
    /\ msg = NoMsg
    /\ server = NoServer
    /\ exc = NoExc
    /\ open = 0
    /\ trace = <<>>
    /\ seen = <<>>
    /\ out = <<>>

\* Lines 80-94: collect the missing names; report them and return, or go on.
ValidateConfig ==
    /\ pc = "start"
    /\ missing' = MissingNames(env)
    /\ IF missing' # <<>>
          THEN /\ out' = out \o <<[line |-> "missing_header"]>>
                              \o [j \in 1..Len(missing') |-> [line |-> "missing", var |-> missing'[j]]]
                              \o <<[line |-> "see_header"]>>
               /\ pc' = "returned"
          ELSE /\ out' = out
               /\ pc' = "fetch_top_stories"
    /\ UNCHANGED <<env, story_ids, i, stories, top_stories, k, msg, server, exc,
                   open, trace, seen>>

\* Lines 96-100: one request for the ids; its failure propagates out of main.
FetchTopStories ==
    /\ pc = "fetch_top_stories"
    /\ \E resp \in TopStoriesResponses :
         LET r == fetch_top_stories(resp, STORIES_TO_FETCH)
         IN  /\ trace' = Append(trace, [ev |-> "topstories", ok |-> resp.status = "ok"])
             /\ IF r.raised
                   THEN /\ out' = Append(out, [line |-> "fetching_top"])
                        /\ pc' = "crashed"
                        /\ UNCHANGED <<story_ids, stories, i>>
                   ELSE /\ story_ids' = r.value
                        /\ out' = out \o <<[line |-> "fetching_top"],
                                            [line |-> "fetching_details"]>>
                        /\ stories' = <<>>
                        /\ i' = 1
                        /\ pc' = "fetch_loop"
    /\ UNCHANGED <<env, missing, top_stories, k, msg, server, exc, open, seen>>

\* Mutant: fetch_story lets the failure of its request propagate.
FetchStoryStepRaises ==
    /\ pc = "fetch_loop"
    /\ i <= Len(story_ids)
    /\ \E resp \in ItemResponses(story_ids[i]) :
         /\ trace' = Append(trace, [ev |-> "item", id |-> story_ids[i],
                                    ok |-> resp.status = "ok"])
         /\ IF resp.status = "ok"
               THEN /\ seen' = Append(seen, resp.json)
                    /\ stories' = IF has_external_url(resp.json)
                                     THEN Append(stories, resp.json)
                                     ELSE stories
                    /\ i' = i + 1
                    /\ pc' = pc
               ELSE /\ pc' = "crashed"
                    /\ UNCHANGED <<seen, stories, i>>
    /\ UNCHANGED <<env, missing, story_ids, top_stories, k, msg, server, exc, open, out>>

\* Lines 101-104: one iteration of the first loop.
FetchStoryStep ==
    /\ pc = "fetch_loop"
    /\ i <= Len(story_ids)
    /\ \E resp \in ItemResponses(story_ids[i]) :
         LET story == fetch_story(resp)
         IN  /\ trace' = Append(trace, [ev |-> "item", id |-> story_ids[i],
                                        ok |-> resp.status = "ok"])
             /\ seen' = IF Truthy(story) THEN Append(seen, story) ELSE seen
             /\ stories' = IF Truthy(story) /\ has_external_url(story)
                              THEN Append(stories, story)
                              ELSE stories
    /\ i' = i + 1
    /\ UNCHANGED <<env, pc, missing, story_ids, top_stories, k, msg, server, exc,
                   open, out>>

\* Lines 106-110: the first loop is over; rank and truncate.
Rank ==
    /\ pc = "fetch_loop"
    /\ i > Len(story_ids)
    /\ top_stories' = get_top_commented_stories(stories, STORIES_TO_SEND)
    /\ out' = out \o <<[line |-> "found", n |-> Len(stories)],
                        [line |-> "sending_top", n |-> Len(top_stories')]>>
    /\ k' = 1
    /\ pc' = "send_loop"
    /\ trace' = Append(trace, [ev |-> "rank"])
    /\ UNCHANGED <<env, missing, story_ids, i, stories, msg, server, exc, open, seen>>

\* Mutant: the selection is walked from its end.
NextStoryReversed == top_stories[Len(top_stories) + 1 - k]

\* Line 112: the story of this iteration of the second loop
NextStory == top_stories[k]

\* Lines 113-122 and 68-73: print the story, build the message, connect.
SmtpConnect ==
    /\ pc = "send_loop"
    /\ k <= Len(top_stories)
    /\ LET story == NextStory
           title == Get(story, "title", "Untitled")
           url == story["url"]
           comments == Get(story, "descendants", 0)
       IN  /\ out' = Append(out, [line |-> "story", n |-> k, title |-> title,
                                  url |-> url, comments |-> comments])
           /\ msg' = [body |-> url, Subject |-> title,
                      From |-> env["ICLOUD_EMAIL"], To |-> env["INSTAPAPER_EMAIL"]]
           /\ trace' = Append(trace, [ev |-> "smtp", id |-> story.id])
    /\ \E ok \in BOOLEAN :
         IF ok
           THEN /\ server' = [cmds |-> <<>>]
                /\ open' = open + 1
                /\ pc' = "starttls"
                /\ exc' = exc
           ELSE /\ exc' = "connect"
                /\ pc' = "send_result"
                /\ UNCHANGED <<server, open>>
    /\ UNCHANGED <<env, missing, story_ids, i, stories, top_stories, k, seen>>

\* One command of the with block: it succeeds and is recorded on the session, or
\* raises and leaves the block.
SmtpCommand(at, cmd, next) ==
    /\ pc = at
    /\ \E ok \in BOOLEAN :
         IF ok
           THEN /\ server' = [server EXCEPT !.cmds = Append(@, cmd)]
                /\ pc' = next
                /\ exc' = exc
           ELSE /\ exc' = cmd[1]
                /\ pc' = "smtp_exit"
                /\ server' = server
    /\ UNCHANGED <<env, missing, story_ids, i, stories, top_stories, k, msg, open,
                   trace, seen, out>>

\* Line 74
StartTls == SmtpCommand("starttls", <<"starttls">>, "login")

\* Line 75
Login ==
    SmtpCommand("login", <<"login", env["ICLOUD_EMAIL"], env["ICLOUD_APP_PASSWORD"]>>,
                "send_message")

\* Line 76
SendMessage == SmtpCommand("send_message", <<"send_message", msg>>, "smtp_exit")

\* Mutant: the connection is closed only when the block ends normally.
SmtpExitLeaksOnError ==
    /\ pc = "smtp_exit"
    /\ open' = IF exc = NoExc THEN open - 1 ELSE open
    /\ server' = NoServer
    /\ pc' = "send_result"
    /\ UNCHANGED <<env, missing, story_ids, i, stories, top_stories, k, msg, exc,
                   trace, seen, out>>

\* Line 73: leaving the with block closes the connection, exception or not
\* (smtplib's __exit__ closes the socket in a finally clause, whatever the server
\* answers to QUIT; the QUIT exchange itself is not modelled).
SmtpExit ==
    /\ pc = "smtp_exit"
    /\ open' = open - 1
    /\ server' = NoServer
    /\ pc' = "send_result"
    /\ UNCHANGED <<env, missing, story_ids, i, stories, top_stories, k, msg, exc,
                   trace, seen, out>>

\* Mutant: no except clause; a failed send propagates out of main.
SendResultAborts ==
    /\ pc = "send_result"
    /\ IF exc = NoExc
          THEN /\ out' = Append(out, [line |-> "sent", n |-> k])
               /\ k' = k + 1
               /\ pc' = "send_loop"
          ELSE /\ pc' = "crashed"
               /\ UNCHANGED <<out, k>>
    /\ exc' = NoExc
    /\ msg' = NoMsg
    /\ UNCHANGED <<env, missing, story_ids, i, stories, top_stories, server, open,
                   trace, seen>>

\* Lines 121-125: the call returned or raised; report it and go to the next story.
SendResult ==
    /\ pc = "send_result"
    /\ out' = Append(out, IF exc = NoExc
                            THEN [line |-> "sent", n |-> k]
                            ELSE [line |-> "failed", n |-> k, reason |-> exc])
    /\ exc' = NoExc
    /\ msg' = NoMsg
    /\ k' = k + 1
    /\ pc' = "send_loop"
    /\ UNCHANGED <<env, missing, story_ids, i, stories, top_stories, server, open,
                   trace, seen>>

\* Line 127
Finish ==
    /\ pc = "send_loop"
    /\ k > Len(top_stories)
    /\ out' = Append(out, [line |-> "done"])
    /\ pc' = "done"
    /\ UNCHANGED <<env, missing, story_ids, i, stories, top_stories, k, msg, server,
                   exc, open, trace, seen>>

Next ==
    \/ ValidateConfig
    \/ FetchTopStories
    \/ FetchStoryStep
    \/ Rank
    \/ SmtpConnect
    \/ StartTls
    \/ Login
    \/ SendMessage
    \/ SmtpExit
    \/ SendResult
    \/ Finish

Spec == Init /\ [][Next]_vars

\* Every step of main is a blocking call that returns or raises, so a run that
\* can take a step takes one.
FairSpec == Spec /\ WF_vars(Next)

(***************************************************************************)
(* Vocabulary of the properties, stated apart from the functions above.    *)
(***************************************************************************)
\* main has computed top_stories
Ranked ==
    pc \in {"send_loop", "starttls", "login", "send_message", "smtp_exit",
            "send_result", "done"}

\* inside the with block of send_to_instapaper
InWithBlock == pc \in {"starttls", "login", "send_message", "smtp_exit"}

\* the discussion count of a story: its descendants field, 0 when missing
DiscussionCount(s) == IF "descendants" \in DOMAIN s THEN s.descendants ELSE 0

\* the story's external URL is present and non-empty
HasNonEmptyUrl(s) == "url" \in DOMAIN s /\ s.url # ""

Events(kind) == SelectSeq(trace, LAMBDA e : e.ev = kind)

Lines(kind) == SelectSeq(out, LAMBDA l : l.line = kind)

\* the lines reporting the outcome of a send
ResultLines == SelectSeq(out, LAMBDA l : l.line \in {"sent", "failed"})

Ids(seq) == [j \in DOMAIN seq |-> seq[j].id]

PositionIn(seq, x) == CHOOSE j \in DOMAIN seq : seq[j] = x

\* the steps of send_to_instapaper that can raise
SendFailures == {"connect", "starttls", "login", "send_message"}

\* the successfully fetched stories with a present, non-empty URL, in fetch order
Qualifying == SelectSeq(seen, HasNonEmptyUrl)

(***************************************************************************)
(* C1                                                                      *)
(***************************************************************************)
\* C1 (as stated): every story kept by the filter step, every story of the ranked
\* selection and every URL handed to send_to_instapaper is present and non-empty.
C1_OnlyNonEmptyUrlsKept ==
    /\ \A j \in DOMAIN stories : HasNonEmptyUrl(stories[j])
    /\ \A j \in DOMAIN top_stories : HasNonEmptyUrl(top_stories[j])
    /\ msg # NoMsg => msg.body # ""

(***************************************************************************)
(* C2                                                                      *)
(***************************************************************************)
\* C2: the ranked selection is in descending order of discussion count (a missing
\* descendants field counting as 0), and two stories of it with equal counts are
\* in the order they had in the filtered list.
C2_RankedDescendingStable ==
    Ranked =>
        /\ \A a \in DOMAIN top_stories : top_stories[a] \in Range(stories)
        /\ \A a, b \in DOMAIN top_stories :
             a < b => DiscussionCount(top_stories[a]) >= DiscussionCount(top_stories[b])
        /\ \A a, b \in DOMAIN top_stories :
             (a < b /\ DiscussionCount(top_stories[a]) = DiscussionCount(top_stories[b]))
                 => PositionIn(stories, top_stories[a]) < PositionIn(stories, top_stories[b])

\* A ranking that moved a story forward and kept a tie (one of the two without a
\* descendants field) in input order.
C2_Witness ==
    /\ Ranked
    /\ Len(top_stories) >= 2
    /\ top_stories[1] # stories[1]
    /\ \E a \in DOMAIN top_stories : \E b \in DOMAIN top_stories :
         /\ a < b
         /\ DiscussionCount(top_stories[a]) = DiscussionCount(top_stories[b])
    /\ \E j \in DOMAIN stories : "descendants" \notin DOMAIN stories[j]

(***************************************************************************)
(* C3                                                                      *)
(***************************************************************************)
\* C3 (as stated): the ranked selection has length min(number of qualifying
\* stories, STORIES_TO_SEND) and consists of the qualifying stories (fetched, URL
\* present and non-empty) with the highest discussion counts.
C3_SelectionIsTopQualifying ==
    Ranked =>
        /\ Len(top_stories) = Min(Len(Qualifying), STORIES_TO_SEND)
        /\ \A a \in DOMAIN top_stories : top_stories[a] \in Range(Qualifying)
        /\ \A x \in Range(Qualifying) \ Range(top_stories) :
             \A a \in DOMAIN top_stories :
                 DiscussionCount(top_stories[a]) >= DiscussionCount(x)

(***************************************************************************)
(* C4                                                                      *)
(***************************************************************************)
\* The configuration check, for a given set of names that count as not configured.
ConfigCheckReports(bad) ==
    pc # "start" =>
        IF bad # {}
          THEN /\ pc = "returned"
               /\ trace = <<>>
               /\ Lines("done") = <<>>
               /\ {l.var : l \in Range(Lines("missing"))} = bad
               /\ Len(Lines("missing")) = Cardinality(bad)
          ELSE /\ pc # "returned"
               /\ missing = <<>>
               /\ Lines("missing") = <<>>
               /\ Lines("missing_header") = <<>>

\* C4 (as stated): when a configuration variable is absent (unset) main makes no
\* network call, prints no completion marker and lists exactly the absent names;
\* when none is absent nothing is reported missing and main goes on.
C4_Original == ConfigCheckReports({n \in Range(ConfigNames) : env[n] = Unset})

\* C4 (amended): the same, for the variables that are unset or set to the empty
\* string.
C4_MissingConfigReported ==
    ConfigCheckReports({n \in Range(ConfigNames) : env[n] \in {Unset, ""}})

\* main returned after reporting one unset and one empty variable.
C4_Witness ==
    /\ pc = "returned"
    /\ env["ICLOUD_EMAIL"] = ""
    /\ env["ICLOUD_APP_PASSWORD"] = Unset
    /\ env["INSTAPAPER_EMAIL"] = "value"
    /\ Len(Lines("missing")) = 2

(***************************************************************************)
(* C5                                                                      *)
(***************************************************************************)
\* C5: a failed detail fetch is not raised (main never dies in the first loop); a
\* detail fetch is made for every id of the batch, in order; and the stories that
\* reach the filter are exactly the ones whose fetch succeeded.
C5_DetailFailureSkipped ==
    LET items == Events("item")
        okItems == SelectSeq(items, LAMBDA e : e.ok)
    IN  /\ pc = "crashed" => items = <<>>
        /\ pc = "fetch_loop" => Ids(items) = SubSeq(story_ids, 1, i - 1)
        /\ Ranked => Ids(items) = story_ids
        /\ Ids(seen) = Ids(okItems)

\* The first fetch of a batch failed, a later one succeeded and its story was kept.
C5_Witness ==
    /\ Ranked
    /\ Len(story_ids) = STORIES_TO_FETCH
    /\ ~ Events("item")[1].ok
    /\ \E j \in 2..Len(story_ids) : Events("item")[j].ok
    /\ stories # <<>>

(***************************************************************************)
(* C6                                                                      *)
(***************************************************************************)
\* A failed send never ends the run; every finished send has one result line, a
\* failure with its reason; at the end one send was attempted per selected story.
C6_Always ==
    /\ pc = "crashed" => Events("smtp") = <<>>
    /\ Ranked =>
         /\ Len(ResultLines) = k - 1
         /\ \A j \in DOMAIN ResultLines :
              /\ ResultLines[j].n = j
              /\ ResultLines[j].line = "failed" => ResultLines[j].reason \in SendFailures
    /\ pc = "done" => Ids(Events("smtp")) = Ids(top_stories)

\* The step after a send raised prints the failure of that story with the reason
\* raised, and goes on with the next story.
C6_FailureReported ==
    (pc = "send_result" /\ exc # NoExc) =>
        /\ out' = Append(out, [line |-> "failed", n |-> k, reason |-> exc])
        /\ k' = k + 1
        /\ pc' = "send_loop"

\* C6: a send failure does not prevent the sends of the following stories: every
\* selected story gets a send attempt, each failure is reported for its story with
\* its reason, and the run still reaches the completion marker.
C6_SendFailureIsolated ==
    /\ []C6_Always
    /\ [][C6_FailureReported]_vars
    /\ (Ranked /\ exc # NoExc) ~> (pc = "done" /\ Lines("done") # <<>>)

\* The first send failed, the second was made and succeeded, and the run is done.
C6_Witness ==
    /\ pc = "done"
    /\ Len(ResultLines) >= 2
    /\ ResultLines[1].line = "failed"
    /\ ResultLines[2].line = "sent"

(***************************************************************************)
(* C7                                                                      *)
(***************************************************************************)
\* C7: the id request is made at most once; when it fails main dies there, with no
\* detail fetch, no send and no completion marker.
C7_IdFetchFailureAborts ==
    LET tops == Events("topstories")
    IN  /\ Len(tops) <= 1
        /\ (tops # <<>> /\ ~ tops[1].ok) =>
             /\ pc = "crashed"
             /\ Len(trace) = 1
             /\ Events("item") = <<>>
             /\ Events("smtp") = <<>>
             /\ Lines("done") = <<>>

\* The id request failed.
C7_Witness ==
    /\ pc = "crashed"
    /\ trace = <<[ev |-> "topstories", ok |-> FALSE]>>

(***************************************************************************)
(* C8                                                                      *)
(***************************************************************************)
\* the stage an event belongs to
Stage(e) ==
    CASE e.ev = "topstories" -> 1
      [] e.ev = "item" -> 2
      [] e.ev = "rank" -> 3
      [] e.ev = "smtp" -> 4

\* C8: the id fetch comes first, then the detail fetches, one per id in the order
\* of the id list, then the ranking, once all of them are done, then the sends, one
\* at a time, the i-th for the i-th story of the ranked selection.
C8_StrictOrder ==
    LET items == Events("item")
        smtps == Events("smtp")
    IN  /\ trace # <<>> => trace[1].ev = "topstories"
        /\ \A a, b \in DOMAIN trace : a < b => Stage(trace[a]) <= Stage(trace[b])
        /\ Len(Events("topstories")) <= 1
        /\ Len(Events("rank")) <= 1
        /\ Ids(items) = SubSeq(story_ids, 1, Len(items))
        /\ Events("rank") # <<>> => Ids(items) = story_ids
        /\ (Events("rank") = <<>>) => (top_stories = <<>> /\ smtps = <<>>)
        /\ Len(smtps) <= Len(top_stories)
        /\ Ids(smtps) = SubSeq(Ids(top_stories), 1, Len(smtps))
        /\ Len(smtps) <= Len(ResultLines) + 1

\* A finished run over a descending id list in which the ranking reordered the
\* stories and two sends were made.
C8_Witness ==
    /\ pc = "done"
    /\ Len(story_ids) = STORIES_TO_FETCH
    /\ story_ids[1] > story_ids[2]
    /\ Len(stories) = STORIES_TO_FETCH
    /\ Len(Events("smtp")) >= 2
    /\ top_stories[1].id # stories[1].id

(***************************************************************************)
(* C9                                                                      *)
(***************************************************************************)
\* the names of the commands that succeeded on the open session
Commands == [j \in DOMAIN server.cmds |-> server.cmds[j][1]]

\* C9: at most one SMTP connection is open, and one is open exactly inside the
\* with block: none once send_to_instapaper has returned or raised, when the next
\* send starts or when the run is over; the message is submitted only after
\* STARTTLS and then login succeeded.
C9_ConnectionScoped ==
    /\ open \in {0, 1}
    /\ (open = 1) <=> InWithBlock
    /\ (server # NoServer) <=> InWithBlock
    /\ InWithBlock =>
         /\ \E n \in 0..3 : Commands = SubSeq(<<"starttls", "login", "send_message">>, 1, n)
         /\ ("send_message" \in Range(Commands))
               => Commands = <<"starttls", "login", "send_message">>

\* The second send raised at login, after a first send went through, and its
\* connection is closed.
C9_Witness ==
    /\ pc = "send_result"
    /\ k = 2
    /\ exc = "login"
    /\ open = 0
    /\ Lines("sent") # <<>>

(***************************************************************************)
(* C10                                                                     *)
(***************************************************************************)
\* The completion marker is printed at most once; sends never exceed
\* STORIES_TO_SEND nor detail fetches STORIES_TO_FETCH; at the end there was one
\* send per selected story and one detail fetch per id returned.
C10_Always ==
    /\ Len(Lines("done")) <= 1
    /\ Len(Events("smtp")) <= STORIES_TO_SEND
    /\ Len(Events("item")) <= STORIES_TO_FETCH
    /\ pc = "done" =>
         /\ Len(Lines("done")) = 1
         /\ out[Len(out)].line = "done"
         /\ Ids(Events("smtp")) = Ids(top_stories)
         /\ Len(Events("smtp")) = Len(top_stories)
         /\ Ids(Events("item")) = story_ids
         /\ Len(Events("item")) = Len(story_ids)

\* C10: with a complete configuration and a successful id fetch the run ends by
\* printing the completion marker, once, after exactly one send attempt per
\* selected story (at most STORIES_TO_SEND) and one detail fetch per id returned
\* (at most STORIES_TO_FETCH).
C10_TerminatesWithBoundedWork ==
    /\ []C10_Always
    /\ (pc = "fetch_loop") ~> (pc = "done")

\* A finished run that fetched STORIES_TO_FETCH ids of a longer list, found more
\* qualifying stories than it sends, and sent STORIES_TO_SEND.
C10_Witness ==
    /\ pc = "done"
    /\ Len(story_ids) = STORIES_TO_FETCH
    /\ Len(stories) > STORIES_TO_SEND
    /\ Len(Events("smtp")) = STORIES_TO_SEND
    /\ Lines("failed") # <<>>

====
